---- MODULE Spec2Model ----
(***************************************************************************)
(* Model of schedule_to_gcal_gui.py: the time-range parser, the schedule   *)
(* parser and the generate_csv handler.                                    *)
(*                                                                         *)
(* Text is modelled at character level: a string is a sequence of          *)
(* one-character strings, so the regular expressions of the source are     *)
(* computed position by position as Python's re module computes them.      *)
(***************************************************************************)
EXTENDS Integers, Sequences, FiniteSets, TLC

VARIABLES
    pc,            \* position of the program
    lines,         \* text.splitlines() of the text widget
    year_input,    \* content of the year entry
    year,          \* int(year) once converted
    idx,           \* index of the next line of the for loop
    events,        \* parse_schedule: events
    current_date,  \* parse_schedule: current_date
    start_month,   \* parse_schedule: start_month
    last_day,      \* parse_schedule: last_day
    warnings,      \* messagebox.showwarning calls, in order
    prompts,       \* simpledialog.askinteger calls
    resolved,      \* assignments to current_date, in order, with the line
    dialogs,       \* messagebox.showerror / showinfo / preview, in order
    file_written,  \* rows written by save_csv, or NoFile
    exception,     \* the exception that left generate_csv, or "none"
    item,          \* fragment handed to parse_time_range
    time_result    \* (start24, end24) returned by parse_time_range

vars == <<pc, lines, year_input, year, idx, events, current_date, start_month,
          last_day, warnings, prompts, resolved, dialogs, file_written,
          exception, item, time_result>>

----------------------------------------------------------------------------
(* Characters and character classes of Python's re on str.                 *)

DigitChars == <<"0", "1", "2", "3", "4", "5", "6", "7", "8", "9">>

DigitSet == {DigitChars[i] : i \in 1..10}

LetterSet ==
    {"a","b","c","d","e","f","g","h","i","j","k","l","m","n","o","p","q","r",
     "s","t","u","v","w","x","y","z",
     "A","B","C","D","E","F","G","H","I","J","K","L","M","N","O","P","Q","R",
     "S","T","U","V","W","X","Y","Z"}

\* \d
IsDigit(c) == c \in DigitSet

\* \s
IsSpace(c) == c \in {" ", "\t"}

\* \w
IsWord(c) == c \in DigitSet \cup LetterSet \cup {"_"}

\* The two non-ASCII characters of the source, U+2013 and U+2022, each one
\* character of a string.
EnDash == "U+2013"

Bullet == "U+2022"

DigitVal(c) == (CHOOSE i \in 1..10 : DigitChars[i] = c) - 1

\* Python's None where a string is expected; no string of the model equals it.
None == <<"None">>

\* Truth value of a str-or-None in a condition.
Truthy(s) == s # None /\ s # <<>>

Drop(s, n) == SubSeq(s, n + 1, Len(s))

RECURSIVE LStrip(_)
LStrip(s) == IF s # <<>> /\ IsSpace(s[1]) THEN LStrip(Tail(s)) ELSE s

RECURSIVE RStrip(_)
RStrip(s) ==
    IF s # <<>> /\ IsSpace(s[Len(s)]) THEN RStrip(SubSeq(s, 1, Len(s) - 1)) ELSE s

\* str.strip()
Strip(s) == RStrip(LStrip(s))

\* int() of a digit string
RECURSIVE ToInt(_)
ToInt(s) ==
    IF s = <<>> THEN 0 ELSE 10 * ToInt(SubSeq(s, 1, Len(s) - 1)) + DigitVal(s[Len(s)])

\* str(n) for n >= 0
RECURSIVE ToStr(_)
ToStr(n) ==
    IF n < 10 THEN <<DigitChars[n + 1]>> ELSE ToStr(n \div 10) \o <<DigitChars[(n % 10) + 1]>>

\* format(n, "0Wd"): zero-padded to at least w digits, never truncated
RECURSIVE PadTo(_, _)
PadTo(s, w) == IF Len(s) >= w THEN s ELSE PadTo(<<"0">> \o s, w)

Fmt02(n) == PadTo(ToStr(n), 2)

----------------------------------------------------------------------------
(* Pieces of the regular expressions, as greedy scans from position p.     *)

\* \d{0,max} at p: number of digits taken
RECURSIVE NDigits(_, _, _)
NDigits(s, p, max) ==
    IF max > 0 /\ p <= Len(s) /\ IsDigit(s[p]) THEN 1 + NDigits(s, p + 1, max - 1) ELSE 0

\* \s* at p: number of characters taken
RECURSIVE NSpaces(_, _)
NSpaces(s, p) == IF p <= Len(s) /\ IsSpace(s[p]) THEN 1 + NSpaces(s, p + 1) ELSE 0

\* (:\d{2})? at p: 3 when present, else 0
NMinutes(s, p) ==
    IF p + 2 <= Len(s) /\ s[p] = ":" /\ IsDigit(s[p + 1]) /\ IsDigit(s[p + 2]) THEN 3 ELSE 0

\* (am|pm)? at p under re.IGNORECASE: the marker lowered, or None
AmPmAt(s, p) ==
    IF p + 1 <= Len(s) /\ s[p + 1] \in {"m", "M"}
    THEN IF s[p] \in {"a", "A"} THEN <<"a", "m">>
         ELSE IF s[p] \in {"p", "P"} THEN <<"p", "m">>
         ELSE None
    ELSE None

NAmPm(s, p) == IF AmPmAt(s, p) = None THEN 0 ELSE 2

\* text.replace(EnDash, "-")
ReplaceDash(s) == [i \in 1..Len(s) |-> IF s[i] = EnDash THEN "-" ELSE s[i]]

----------------------------------------------------------------------------
(* parse_time_range                                                        *)

\* One part of a pattern at position p: the position after it.  Each part
\* is greedy and optional (or, for \d{1,2}, decided by the caller), so it is
\* taken as far as it goes and never given back.
After(s, p, part) ==
    CASE part = "d{1,2}" -> p + NDigits(s, p, 2)
      [] part = "d{0,2}" -> p + NDigits(s, p, 2)
      [] part = "(:dd)?" -> p + NMinutes(s, p)
      [] part = "s*"     -> p + NSpaces(s, p)
      [] part = "(am|pm)?" -> p + NAmPm(s, p)
      [] part = "-?"     -> IF p <= Len(s) /\ s[p] = "-" THEN p + 1 ELSE p

\* The positions after each part of a sequence of parts matched from p
RECURSIVE Ends(_, _, _)
Ends(s, p, parts) ==
    IF parts = <<>> THEN <<>>
    ELSE <<After(s, p, Head(parts))>> \o Ends(s, After(s, p, Head(parts)), Tail(parts))

\* re.match(time_pattern, text): the groups and the end of the match, or
\* matched = FALSE.  Every part after the first \d{1,2} is optional, so the
\* first greedy path is the match.
TimeMatch(text) ==
    LET e == Ends(text, 1, <<"d{1,2}", "(:dd)?", "s*", "(am|pm)?", "s*">>)
        hasDash == e[5] <= Len(text) /\ text[e[5]] = "-"
        g == Ends(text, e[5] + 1, <<"s*", "d{1,2}", "(:dd)?", "s*", "(am|pm)?">>)
        hasEnd == hasDash /\ g[2] > g[1]
    IN  IF e[1] = 1
        THEN [matched |-> FALSE, start |-> None, start_ampm |-> None,
              end |-> None, end_ampm |-> None, stop |-> 0]
        ELSE [matched |-> TRUE,
              start |-> SubSeq(text, 1, e[2] - 1),
              start_ampm |-> AmPmAt(text, e[3]),
              end |-> IF hasEnd THEN SubSeq(text, g[1], g[3] - 1) ELSE None,
              end_ampm |-> IF hasEnd THEN AmPmAt(text, g[4]) ELSE None,
              stop |-> IF hasEnd THEN g[5] - 1 ELSE e[5] - 1]

\* pm adds 12 to every hour, 12 included
Hour24Pm12(h, ampm) ==
    IF ampm = <<"p", "m">> THEN h + 12
    ELSE IF ampm = <<"a", "m">> /\ h = 12 THEN 0
    ELSE h

\* the hour conversion of to_24h
Hour24(h, ampm) ==
    IF ampm = <<"p", "m">> /\ h # 12 THEN h + 12
    ELSE IF ampm = <<"a", "m">> /\ h = 12 THEN 0
    ELSE h

\* to_24h(t, ampm)
to_24h(t, ampm) ==
    LET colon == IF \E i \in 1..Len(t) : t[i] = ":"
                 THEN CHOOSE i \in 1..Len(t) : t[i] = ":"
                 ELSE 0
        tt == IF colon = 0 THEN t \o <<":", "0", "0">> ELSE t
        c  == IF colon = 0 THEN Len(t) + 1 ELSE colon
        h  == ToInt(SubSeq(tt, 1, c - 1))
        m  == ToInt(SubSeq(tt, c + 1, Len(tt)))
    IN  Fmt02(Hour24(h, ampm)) \o <<":">> \o Fmt02(m)

\* parse_time_range(text): <<start24, end24>>
parse_time_range(text) ==
    LET mt == TimeMatch(Strip(ReplaceDash(text)))
    IN  IF ~mt.matched THEN <<None, None>>
        ELSE <<to_24h(mt.start, mt.start_ampm),
               IF mt.end # None THEN to_24h(mt.end, mt.end_ampm) ELSE None>>

----------------------------------------------------------------------------
(* The event of one fragment                                               *)

\* Number of leading characters removed by the re.sub of the description
\* pattern  ^(\d{1,2}(:\d{2})?\s*(am|pm)?\s*-?\s*\d{0,2}(:\d{2})?\s*(am|pm)?)\s*
\* Every part after the first \d{1,2} is optional, so the first greedy path is
\* the match; ^ matches at the start only, so at most one removal is made.
DescMatchLen(it) ==
    LET e == Ends(it, 1, <<"d{1,2}", "(:dd)?", "s*", "(am|pm)?", "s*", "-?", "s*",
                           "d{0,2}", "(:dd)?", "s*", "(am|pm)?", "s*">>)
    IN  IF e[1] = 1 THEN 0 ELSE e[12] - 1

\* desc of parse_schedule
Description(it) ==
    LET desc == Strip(Drop(it, DescMatchLen(it)))
    IN  IF desc = <<>> THEN it ELSE desc

\* datetime.strftime("%m/%d/%Y"); the years of the model that reach it have
\* four digits
strftime(date) ==
    Fmt02(date.m) \o <<"/">> \o Fmt02(date.d) \o <<"/">> \o PadTo(ToStr(date.y), 4)

\* the flag taken from the end time instead of the start time
AllDayFromEnd(start_time, end_time) == IF ~Truthy(end_time) THEN "True" ELSE "False"

\* "True" if not start_time else "False"
AllDay(start_time, end_time) == IF ~Truthy(start_time) THEN "True" ELSE "False"

\* current_date.strftime(...) if end_time else ""
EndDate(date, end_time) == IF Truthy(end_time) THEN strftime(date) ELSE <<>>

\* the dict appended to events for one item
MakeEvent(it, date) ==
    LET tr == parse_time_range(it)
        start_time == tr[1]
        end_time   == tr[2]
    IN  [Subject     |-> Description(it),
         StartDate   |-> strftime(date),
         StartTime   |-> IF Truthy(start_time) THEN start_time ELSE <<>>,
         EndDate     |-> EndDate(date, end_time),
         EndTime     |-> IF Truthy(end_time) THEN end_time ELSE <<>>,
         AllDayEvent |-> AllDay(start_time, end_time),
         Description |-> <<>>,
         Location    |-> <<>>]

----------------------------------------------------------------------------
(* Lines: the split into items and the day header                          *)

\* re.split(Bullet | \s{2,}, line): the pieces, in order
RECURSIVE SplitFrom(_, _, _)
SplitFrom(s, p, cur) ==
    IF p > Len(s) THEN <<cur>>
    ELSE IF s[p] = Bullet THEN <<cur>> \o SplitFrom(s, p + 1, <<>>)
    ELSE IF NSpaces(s, p) >= 2 THEN <<cur>> \o SplitFrom(s, p + NSpaces(s, p), <<>>)
    ELSE SplitFrom(s, p + 1, Append(cur, s[p]))

\* the items of the inner loop: each piece stripped, the empty ones skipped
Items(line) ==
    LET pieces   == SplitFrom(line, 1, <<>>)
        stripped == [i \in 1..Len(pieces) |-> Strip(pieces[i])]
    IN  SelectSeq(stripped, LAMBDA x : x # <<>>)

\* \w+ at p: number of characters taken
RECURSIVE NWord(_, _)
NWord(s, p) == IF p <= Len(s) /\ IsWord(s[p]) THEN 1 + NWord(s, p + 1) ELSE 0

\* re.match(r'(\d{1,2})\s+\w+(.*)', line): day and stripped trailing text
DayMatch(line) ==
    LET d  == NDigits(line, 1, 2)
        p  == 1 + d
        sp == NSpaces(line, p)
        w  == NWord(line, p + sp)
    IN  IF d >= 1 /\ sp >= 1 /\ w >= 1
        THEN [matched |-> TRUE, day |-> ToInt(SubSeq(line, 1, d)),
              trailing |-> Strip(Drop(line, p + sp + w - 1))]
        ELSE [matched |-> FALSE, day |-> 0, trailing |-> <<>>]

\* new events put in front of the list
PrependEvents(evs, new) == new \o evs

\* events.append, once per item of the line
AppendEvents(evs, new) == evs \o new

\* the events appended for the items of one line, in item order
EventsOf(line, date) ==
    LET its == Items(line) IN [i \in 1..Len(its) |-> MakeEvent(its[i], date)]

----------------------------------------------------------------------------
(* Dates                                                                   *)

IsLeap(y) == (y % 4 = 0 /\ y % 100 # 0) \/ y % 400 = 0

DaysInMonth(y, m) ==
    IF m = 2 THEN (IF IsLeap(y) THEN 29 ELSE 28)
    ELSE IF m \in {4, 6, 9, 11} THEN 30 ELSE 31

\* datetime(y, m, d) raises ValueError unless this holds
ValidDate(y, m, d) ==
    /\ y \in 1..9999
    /\ m \in 1..12
    /\ d \in 1..DaysInMonth(y, m)

\* current_date = None; no datetime has year 0
NoDate == [y |-> 0, m |-> 0, d |-> 0]

\* start_month = None (askinteger cancelled); stands for None only
NoMonth == -1

\* last_day = None; no \d{1,2} day is negative
NoDay == -1

\* datetime(year, month, 28) + timedelta(days=1), given the 28th is a date
CorrectedDate(y, m) ==
    IF DaysInMonth(y, m) = 28 THEN [y |-> y, m |-> m + 1, d |-> 1]
    ELSE [y |-> y, m |-> m, d |-> 29]

RolloverTest(day, last) == last # NoDay /\ last # 0 /\ day < last

\* the month of a day header: start_month, plus one on a rollover
HeaderMonth(day, last, start) ==
    IF RolloverTest(day, last)
    THEN (IF start + 1 > 12 THEN 1 ELSE start + 1)
    ELSE start

----------------------------------------------------------------------------
(* Inputs                                                                  *)

\* Longest text, in lines
MaxLines == 3

\* The lines a text is made of: blank, month header, comment, day headers
\* with and without trailing events, body lines
LineSet ==
    {<<>>,
     <<"A", "p", "r", " ", "2", "0", "2", "6">>,
     <<"*", " ", "n", "o", "t", "e">>,
     <<"2", "8", " ", "M", "o", "n">>,
     <<"1", " ", "T", "u", "e", " ", "G", "a", "m", "e", " ", "7", "p", "m">>,
     <<"2", " ", "W", "e", "d", " ", "9", "-", "1", "0", "p", "m", " ", "S", "w", "i", "m", " ", Bullet, " ", "L", "u", "n", "c", "h">>,
     <<"3", "1", " ", "T", "h", "u">>,
     <<"1", "0", "a", "m", " ", "5", "K", " ", " ", "T", "e", "a">>}

\* text.splitlines() of the widget's content, which always ends in a newline:
\* at least one line
Texts == UNION {[1..n -> LineSet] : n \in 1..MaxLines}

\* contents of the year entry
YearInputs ==
    {<<"2", "0", "2", "6">>,
     <<"0">>,
     <<"1", "0", "0", "0", "0">>,
     <<"2", "0", "x">>}

\* what askinteger returns: an integer, or None on Cancel
PromptAnswers == {NoMonth, 2, 4, 12}

\* the fragments given to parse_time_range on its own: an hour, optional
\* minutes, an optional marker, an optional end side, trailing text
FragHours ==
    {[text |-> <<"9">>, h |-> 9],
     [text |-> <<"1", "0">>, h |-> 10],
     [text |-> <<"1", "2">>, h |-> 12],
     [text |-> <<"1", "3">>, h |-> 13],
     [text |-> <<"0">>, h |-> 0]}

FragMinutes ==
    {[text |-> <<>>, m |-> 0],
     [text |-> <<":", "3", "0">>, m |-> 30],
     [text |-> <<":", "7", "5">>, m |-> 75]}

FragMarks ==
    {[text |-> <<>>, mk |-> "none"],
     [text |-> <<"a", "m">>, mk |-> "am"],
     [text |-> <<"p", "m">>, mk |-> "pm"],
     [text |-> <<"P", "M">>, mk |-> "pm"],
     [text |-> <<" ", "p", "m">>, mk |-> "pm"]}

\* the end side: present or not, its hour, minutes and marker
FragEnds ==
    {[text |-> <<>>, present |-> FALSE, h |-> 0, m |-> 0, mk |-> "none"],
     [text |-> <<"-", "1", "0", "p", "m">>, present |-> TRUE, h |-> 10, m |-> 0, mk |-> "pm"],
     [text |-> <<"-", "1", "1", ":", "3", "0", "a", "m">>, present |-> TRUE, h |-> 11, m |-> 30, mk |-> "am"],
     [text |-> <<" ", "-", " ", "1", "2", "a", "m">>, present |-> TRUE, h |-> 12, m |-> 0, mk |-> "am"],
     [text |-> <<EnDash, "5">>, present |-> TRUE, h |-> 5, m |-> 0, mk |-> "none"]}

FragTails == {<<>>, <<" ", "R", "u", "n">>, <<" ", "5", "K", " ", "R", "u", "n">>}

\* fragments with no leading digit, and the examples of the documentation
FragPlain ==
    {<<"n", "o", " ", "t", "i", "m", "e", " ", "h", "e", "r", "e">>,
     <<"G", "a", "m", "e", " ", "7", "p", "m">>,
     <<"1", "4", ":", "0", "0">>,
     <<EnDash, "9", "p", "m">>}

BuildFragment(h, mi, mk, en, tl) == h.text \o mi.text \o mk.text \o en.text \o tl

Fragments ==
    {BuildFragment(h, mi, mk, en, tl) :
        h \in FragHours, mi \in FragMinutes, mk \in FragMarks,
        en \in FragEnds, tl \in FragTails} \cup FragPlain

----------------------------------------------------------------------------
(* generate_csv and parse_schedule                                         *)

MonthAbbr ==
    <<<<"J", "a", "n">>,
      <<"F", "e", "b">>,
      <<"M", "a", "r">>,
      <<"A", "p", "r">>,
      <<"M", "a", "y">>,
      <<"J", "u", "n">>,
      <<"J", "u", "l">>,
      <<"A", "u", "g">>,
      <<"S", "e", "p">>,
      <<"O", "c", "t">>,
      <<"N", "o", "v">>,
      <<"D", "e", "c">>>>

\* str.isdigit()
isdigit(s) == s # <<>> /\ \A i \in 1..Len(s) : IsDigit(s[i])

\* the line the month is looked for in: lines[0].strip()
HeaderLine(ls) == Strip(ls[1])

\* re.match(r'(Jan|...|Dec)', line) and strptime(..., "%b").month; 0 when
\* there is no match
DetectMonth(line) ==
    IF Len(line) >= 3 /\ \E k \in 1..12 : MonthAbbr[k] = SubSeq(line, 1, 3)
    THEN CHOOSE k \in 1..12 : MonthAbbr[k] = SubSeq(line, 1, 3)
    ELSE 0

NoFile == [written |-> FALSE, rows |-> <<>>]

Init ==
    /\ pc = "idle"
    /\ lines \in Texts
    /\ year_input \in YearInputs
    /\ year = 0
    /\ idx = 0
    /\ events = <<>>
    /\ current_date = NoDate
    /\ start_month = NoMonth
    /\ last_day = NoDay
    /\ warnings = <<>>
    /\ prompts = 0
    /\ resolved = <<>>
    /\ dialogs = <<>>
    /\ file_written = NoFile
    /\ exception = "none"
    /\ item = <<>>
    /\ time_result = <<None, None>>

\* generate_csv: the year is not a number
GenerateCsvBadYear ==
    /\ pc = "idle"
    /\ ~isdigit(year_input)
    /\ dialogs' = Append(dialogs, "Year must be a number")
    /\ pc' = "done"
    /\ UNCHANGED <<lines, year_input, year, idx, events, current_date, start_month,
                   last_day, warnings, prompts, resolved, file_written, exception,
                   item, time_result>>

\* generate_csv calls parse_schedule, which detects the month or asks for it
GenerateCsvParse ==
    /\ pc = "idle"
    /\ isdigit(year_input)
    /\ year' = ToInt(year_input)
    /\ LET mo == DetectMonth(HeaderLine(lines))
       IN  IF mo # 0
           THEN start_month' = mo /\ prompts' = prompts
           ELSE /\ \E answer \in PromptAnswers : start_month' = answer
                /\ prompts' = prompts + 1
    /\ idx' = 1
    /\ pc' = "scan"
    /\ UNCHANGED <<lines, year_input, events, current_date, last_day, warnings,
                   resolved, dialogs, file_written, exception, item, time_result>>

\* the line of this iteration, stripped
CurLine == Strip(lines[idx])

\* not line or line.startswith("*")
Skipped(line) == IF line = <<>> THEN TRUE ELSE line[1] = "*"

\* a blank line, a comment line, or a line before any day header: continue
ScanSkip ==
    /\ pc = "scan"
    /\ idx <= Len(lines)
    /\ IF Skipped(CurLine) THEN TRUE
       ELSE ~DayMatch(CurLine).matched /\ current_date = NoDate
    /\ idx' = idx + 1
    /\ UNCHANGED <<pc, lines, year_input, year, events, current_date, start_month,
                   last_day, warnings, prompts, resolved, dialogs, file_written,
                   exception, item, time_result>>

\* the date of a day header: [ok, date, corrected]
HeaderDate(y, month, day) ==
    IF ValidDate(y, month, day)
    THEN [ok |-> TRUE, date |-> [y |-> y, m |-> month, d |-> day], corrected |-> FALSE]
    ELSE IF ValidDate(y, month, 28)
    THEN [ok |-> TRUE, date |-> CorrectedDate(y, month), corrected |-> TRUE]
    ELSE [ok |-> FALSE, date |-> NoDate, corrected |-> FALSE]

\* a day header line whose date is made: the date, the warning, the events
\* of the trailing text
ScanHeader ==
    /\ pc = "scan"
    /\ idx <= Len(lines)
    /\ ~Skipped(CurLine)
    /\ DayMatch(CurLine).matched
    /\ start_month # NoMonth
    /\ LET dm    == DayMatch(CurLine)
           month == HeaderMonth(dm.day, last_day, start_month)
           hd    == HeaderDate(year, month, dm.day)
       IN  /\ hd.ok
           /\ last_day' = dm.day
           /\ current_date' = hd.date
           /\ warnings' = IF hd.corrected
                          THEN Append(warnings, [line |-> idx, month |-> month,
                                                 day |-> dm.day, year |-> year,
                                                 corrected |-> hd.date])
                          ELSE warnings
           /\ resolved' = Append(resolved, [line |-> idx, month |-> month, date |-> hd.date])
           /\ events' = AppendEvents(events, EventsOf(dm.trailing, hd.date))
    /\ idx' = idx + 1
    /\ UNCHANGED <<pc, lines, year_input, year, start_month, prompts, dialogs,
                   file_written, exception, item, time_result>>

\* a day header line whose date cannot be made: the exception leaves
\* parse_schedule and generate_csv
ScanHeaderRaise ==
    /\ pc = "scan"
    /\ idx <= Len(lines)
    /\ ~Skipped(CurLine)
    /\ DayMatch(CurLine).matched
    /\ LET dm == DayMatch(CurLine)
       IN  IF start_month = NoMonth
           THEN exception' = "TypeError"
           ELSE /\ ~HeaderDate(year, HeaderMonth(dm.day, last_day, start_month), dm.day).ok
                /\ exception' = "ValueError"
    /\ pc' = "raised"
    /\ UNCHANGED <<lines, year_input, year, idx, events, current_date, start_month,
                   last_day, warnings, prompts, resolved, dialogs, file_written,
                   item, time_result>>

\* an event line under a date
ScanBody ==
    /\ pc = "scan"
    /\ idx <= Len(lines)
    /\ ~Skipped(CurLine)
    /\ ~DayMatch(CurLine).matched
    /\ current_date # NoDate
    /\ events' = AppendEvents(events, EventsOf(CurLine, current_date))
    /\ idx' = idx + 1
    /\ UNCHANGED <<pc, lines, year_input, year, current_date, start_month, last_day,
                   warnings, prompts, resolved, dialogs, file_written, exception,
                   item, time_result>>

\* parse_schedule returned no event
ReturnNoEvents ==
    /\ pc = "scan"
    /\ idx > Len(lines)
    /\ events = <<>>
    /\ dialogs' = Append(dialogs, "No events found")
    /\ pc' = "done"
    /\ UNCHANGED <<lines, year_input, year, idx, events, current_date, start_month,
                   last_day, warnings, prompts, resolved, file_written, exception,
                   item, time_result>>

\* parse_schedule returned events: preview_events opens and waits
ReturnPreview ==
    /\ pc = "scan"
    /\ idx > Len(lines)
    /\ events # <<>>
    /\ dialogs' = Append(dialogs, "Preview Events")
    /\ pc' = "preview"
    /\ UNCHANGED <<lines, year_input, year, idx, events, current_date, start_month,
                   last_day, warnings, prompts, resolved, file_written, exception,
                   item, time_result>>

\* 'Generate CSV' in the preview: ok, then save_csv
OnGenerate ==
    /\ pc = "preview"
    /\ file_written' = [written |-> TRUE, rows |-> events]
    /\ dialogs' = Append(dialogs, "Success")
    /\ pc' = "done"
    /\ UNCHANGED <<lines, year_input, year, idx, events, current_date, start_month,
                   last_day, warnings, prompts, resolved, exception, item, time_result>>

\* 'Go back' saving the file all the same
OnBackSaves ==
    /\ pc = "preview"
    /\ file_written' = [written |-> TRUE, rows |-> events]
    /\ pc' = "done"
    /\ UNCHANGED <<lines, year_input, year, idx, events, current_date, start_month,
                   last_day, warnings, prompts, resolved, dialogs, exception, item,
                   time_result>>

\* 'Go back', or the preview window closed: not ok, generate_csv returns
OnBack ==
    /\ pc = "preview"
    /\ pc' = "done"
    /\ UNCHANGED <<lines, year_input, year, idx, events, current_date, start_month,
                   last_day, warnings, prompts, resolved, dialogs, file_written,
                   exception, item, time_result>>

Next ==
    \/ GenerateCsvBadYear
    \/ GenerateCsvParse
    \/ ScanSkip
    \/ ScanHeader
    \/ ScanHeaderRaise
    \/ ScanBody
    \/ ReturnNoEvents
    \/ ReturnPreview
    \/ OnGenerate
    \/ OnBack

Spec == Init /\ [][Next]_vars

----------------------------------------------------------------------------
(* parse_time_range and the event of one fragment, on their own            *)

FragDate == [y |-> 2026, m |-> 1, d |-> 23]

InitFrag ==
    /\ pc = "frag"
    /\ item \in Fragments
    /\ lines = <<>>
    /\ year_input = <<>>
    /\ year = FragDate.y
    /\ idx = 0
    /\ events = <<>>
    /\ current_date = FragDate
    /\ start_month = FragDate.m
    /\ last_day = FragDate.d
    /\ warnings = <<>>
    /\ prompts = 0
    /\ resolved = <<>>
    /\ dialogs = <<>>
    /\ file_written = NoFile
    /\ exception = "none"
    /\ time_result = <<None, None>>

\* start_time, end_time = parse_time_range(item)
CallParseTimeRange ==
    /\ pc = "frag"
    /\ time_result' = parse_time_range(item)
    /\ pc' = "frag_timed"
    /\ UNCHANGED <<lines, year_input, year, idx, events, current_date, start_month,
                   last_day, warnings, prompts, resolved, dialogs, file_written,
                   exception, item>>

\* events.append({...})
AppendEvent ==
    /\ pc = "frag_timed"
    /\ events' = Append(events, MakeEvent(item, current_date))
    /\ pc' = "frag_done"
    /\ UNCHANGED <<lines, year_input, year, idx, current_date, start_month,
                   last_day, warnings, prompts, resolved, dialogs, file_written,
                   exception, item, time_result>>

NextFrag == CallParseTimeRange \/ AppendEvent

SpecFrag == InitFrag /\ [][NextFrag]_vars

----------------------------------------------------------------------------
(* Properties                                                              *)

\* the day number of the header on line i
HeaderDayOf(i) == DayMatch(Strip(lines[i])).day

\* C1: a day header with day 31 in a 30-day month gets the 1st of the
\* following month as its date, and a date-correction warning is shown for it.
C1_Day31BecomesFirstOfNextMonth ==
    \A k \in 1..Len(resolved) :
        LET r == resolved[k]
        IN  (r.month \in {4, 6, 9, 11} /\ HeaderDayOf(r.line) = 31)
            => /\ r.date = [y |-> year, m |-> r.month + 1, d |-> 1]
               /\ \E w \in 1..Len(warnings) : warnings[w].line = r.line

\* the number of headers among the first k whose day is less than the day of
\* the header before
RECURSIVE RolloversUpTo(_)
RolloversUpTo(k) ==
    IF k <= 1 THEN 0
    ELSE RolloversUpTo(k - 1)
         + (IF HeaderDayOf(resolved[k].line) < HeaderDayOf(resolved[k - 1].line)
            THEN 1 ELSE 0)

\* month advanced n times, 12 wrapping to 1
AdvanceMonth(month, n) == ((month - 1 + n) % 12) + 1

\* C2: the month of every day header is the start month advanced once for
\* each header so far whose day is less than the previous header's day: the
\* working month carries forward.
C2_MonthCarriesForward ==
    \A k \in 1..Len(resolved) :
        resolved[k].month = AdvanceMonth(start_month, RolloversUpTo(k))

\* the first line that is not blank, stripped; empty when all are blank
FirstNonEmptyLine(ls) ==
    IF \E i \in 1..Len(ls) : Strip(ls[i]) # <<>>
    THEN Strip(ls[CHOOSE i \in 1..Len(ls) :
                    Strip(ls[i]) # <<>> /\ \A j \in 1..(i - 1) : Strip(ls[j]) = <<>>])
    ELSE <<>>

\* C3: the start month is the month abbreviation at the start of the first
\* non-empty line, and the month prompt is shown only when that line has none.
C3_MonthFromFirstNonEmptyLine ==
    pc \in {"scan", "raised", "preview"} =>
        LET mo == DetectMonth(FirstNonEmptyLine(lines))
        IN  /\ (prompts = 1) <=> (mo = 0)
            /\ mo # 0 => start_month = mo

\* C4: in every event, All Day Event is "True" exactly when Start Time is
\* empty and "False" otherwise, End Date is set exactly when End Time is, and
\* an event without Start Time has neither End Date nor End Time.
C4_EventFieldInvariant ==
    \A k \in 1..Len(events) :
        LET e == events[k]
        IN  /\ (e.AllDayEvent = "True") <=> (e.StartTime = <<>>)
            /\ (e.AllDayEvent = "False") <=> (e.StartTime # <<>>)
            /\ (e.EndDate # <<>>) <=> (e.EndTime # <<>>)
            /\ e.StartTime = <<>> => (e.EndDate = <<>> /\ e.EndTime = <<>>)

C4_Witness ==
    /\ pc = "preview"
    /\ \E k \in 1..Len(events) : events[k].StartTime = <<>>
    /\ \E k \in 1..Len(events) : events[k].StartTime # <<>> /\ events[k].EndTime = <<>>
    /\ \E k \in 1..Len(events) : events[k].EndTime # <<>>

\* one side of a time range as the documentation converts it
SideTime(h, m, mk) ==
    LET h24 == IF mk = "pm" /\ h # 12 THEN h + 12
               ELSE IF mk = "am" /\ h = 12 THEN 0
               ELSE h
    IN  Fmt02(h24) \o <<":">> \o Fmt02(m)

\* C5: each side of a leading time expression is converted on its own: pm
\* with an hour other than 12 adds 12, am with hour 12 gives 0, no marker
\* keeps the digits as a 24-hour value, minutes default to 00; "9-10pm" gives
\* 09:00 and 22:00, "10am-11:30am" gives 10:00 and 11:30, "14:00" gives 14:00
\* and no end, and a fragment that does not start with a digit gives nothing.
C5_SidesConvertedIndependently ==
    pc \in {"frag_timed", "frag_done"} =>
        /\ \A h \in FragHours, mi \in FragMinutes, mk \in FragMarks,
              en \in FragEnds, tl \in FragTails :
                item = BuildFragment(h, mi, mk, en, tl) =>
                    /\ time_result[1] = SideTime(h.h, mi.m, mk.mk)
                    /\ time_result[2] = IF en.present
                                        THEN SideTime(en.h, en.m, en.mk)
                                        ELSE None
        /\ item = <<"9", "-", "1", "0", "p", "m">>
               => time_result = <<<<"0", "9", ":", "0", "0">>, <<"2", "2", ":", "0", "0">>>>
        /\ item = <<"1", "0", "a", "m", "-", "1", "1", ":", "3", "0", "a", "m">>
               => time_result = <<<<"1", "0", ":", "0", "0">>, <<"1", "1", ":", "3", "0">>>>
        /\ item = <<"1", "4", ":", "0", "0">>
               => time_result = <<<<"1", "4", ":", "0", "0">>, None>>
        /\ ~IsDigit(item[1]) => time_result = <<None, None>>

C5_Witness ==
    /\ pc = "frag_timed"
    /\ item = <<"9", "-", "1", "0", "p", "m">>
    /\ time_result = <<<<"0", "9", ":", "0", "0">>, <<"2", "2", ":", "0", "0">>>>

\* a 24-hour time written HH:MM
IsClockTime(t) ==
    /\ Len(t) = 5
    /\ IsDigit(t[1]) /\ IsDigit(t[2]) /\ t[3] = ":" /\ IsDigit(t[4]) /\ IsDigit(t[5])
    /\ 10 * DigitVal(t[1]) + DigitVal(t[2]) \in 0..23
    /\ 10 * DigitVal(t[4]) + DigitVal(t[5]) \in 0..59

\* C6: every start and end time produced is a 24-hour time HH:MM, two hour
\* digits in 0..23 and two minute digits in 0..59.
C6_TimesAreClockTimes ==
    pc \in {"frag_timed", "frag_done"} =>
        \A k \in 1..2 : time_result[k] # None => IsClockTime(time_result[k])

\* C7: with a year that passed the year check and a month in 1..12, the parse
\* never ends in an uncaught error: an invalid header date is corrected and
\* the scan goes on.
C7_ParseNeverRaises ==
    (isdigit(year_input) /\ start_month \in 1..12) => pc # "raised"

\* the line of the last day header at or before line i; 0 when there is none
LastHeaderAt(i) ==
    LET hs == {j \in 1..i : DayMatch(Strip(lines[j])).matched}
    IN  IF hs = {} THEN 0 ELSE CHOOSE j \in hs : \A k \in hs : k <= j

\* the date the parser made for the header on line j
ResolvedDateOf(j) ==
    resolved[CHOOSE k \in 1..Len(resolved) : resolved[k].line = j].date

\* the events line i stands for: none for a blank line, a comment line or a
\* line before the first day header, else one per non-empty fragment, dated by
\* the last day header
LineEvents(i) ==
    LET line == Strip(lines[i])
        blank == line = <<>>
        comment == IF blank THEN FALSE ELSE line[1] = "*"
        hdr == LastHeaderAt(i)
    IN  IF blank \/ comment \/ hdr = 0 THEN <<>>
        ELSE LET content == IF hdr = i THEN DayMatch(line).trailing ELSE line
                 frags == Items(content)
             IN  [k \in 1..Len(frags) |-> MakeEvent(frags[k], ResolvedDateOf(hdr))]

RECURSIVE EventsThrough(_)
EventsThrough(n) == IF n = 0 THEN <<>> ELSE EventsThrough(n - 1) \o LineEvents(n)

\* C8: the events are, in line order and fragment order, one event per
\* non-empty fragment of every line at or after the first day header that is
\* neither blank nor a comment, each dated by the most recent day header;
\* other lines give no event and leave the date alone.
C8_EventsInInputOrder ==
    /\ pc \in {"scan", "raised"} => events = EventsThrough(idx - 1)
    /\ pc = "preview" => events = EventsThrough(Len(lines))
    /\ (pc = "done" /\ idx > 0) => events = EventsThrough(Len(lines))

C8_Witness ==
    /\ pc = "preview"
    /\ Len(events) = 5
    /\ events[1].StartDate # events[5].StartDate
    /\ Len(resolved) = 2

\* the Subject the documentation describes: the fragment without the time
\* expression parse_time_range recognized, or the whole fragment
RecognizedSubject(it) ==
    LET mt   == TimeMatch(Strip(ReplaceDash(it)))
        rest == Strip(Drop(it, mt.stop))
    IN  IF ~mt.matched \/ rest = <<>> THEN it ELSE rest

\* C9: the Subject of a fragment is the fragment without exactly the leading
\* time expression parse_time_range recognized; text after it is kept.
C9_SubjectKeepsTextAfterTime ==
    pc = "frag_done" => events[1].Subject = RecognizedSubject(item)

\* C10: the CSV file is written only after the year passed the check, the
\* parse returned at least one event and the preview was confirmed; a year
\* that is not a number gives an error and no parse, an empty result gives
\* 'No events found' with no preview and no file, and leaving the preview
\* writes no file.
C10_FileOnlyAfterConfirmedPreview ==
    /\ file_written.written =>
          /\ isdigit(year_input)
          /\ idx = Len(lines) + 1
          /\ events # <<>>
          /\ dialogs = <<"Preview Events", "Success">>
          /\ file_written.rows = events
    /\ (pc # "idle" /\ ~isdigit(year_input)) =>
          /\ dialogs = <<"Year must be a number">>
          /\ idx = 0 /\ prompts = 0
          /\ ~file_written.written
    /\ (pc = "done" /\ isdigit(year_input) /\ events = <<>>) =>
          /\ dialogs = <<"No events found">>
          /\ ~file_written.written
    /\ (pc = "done" /\ dialogs = <<"Preview Events">>) => ~file_written.written

C10_Witness ==
    /\ pc = "done"
    /\ file_written.written
    /\ Len(file_written.rows) >= 2

====
